---------------------------- MODULE Spec2Model ----------------------------
(***************************************************************************)
(* Model of the trivia ETL-and-quiz application (src/main.py).             *)
(*                                                                         *)
(* State: the persisted trivia table (trivia.db) and the Streamlit         *)
(* session state of the quiz.  One action per operation of the program:   *)
(* the ingestion cycle etl_pipeline, and the three kinds of script run of *)
(* main(): a slider change, a click on "Start Quiz" and a click on        *)
(* "Submit".  Spec follows the quiz over the table.  SpecStorage follows  *)
(* the storage operations one at a time (etl_pipeline,                    *)
(* fetch_random_questions, visualize_data), each with its connection and  *)
(* the exception it may let escape.                                        *)
(*                                                                         *)
(* Texts that the program takes apart (answers) are sequences of          *)
(* one-character strings; texts it only passes on (question, difficulty,  *)
(* category, type) are strings.  Python lists are sequences, Python       *)
(* indices are kept 0-based as in the source (questions[i] of the source  *)
(* is questions[i + 1] here).  An optional value is <<>> for None and     *)
(* <<v>> for the value v.                                                  *)
(***************************************************************************)
EXTENDS Integers, Sequences, FiniteSets, TLC

VARIABLES
    db,             \* trivia.db: whether table trivia exists, and its rows
    session_state,  \* st.session_state: the quiz session
    selections,     \* history: the selections submit_answer was given since the last start_quiz
    ignored,        \* history: submit_answer was called without a selection since the last start_quiz
    started_options, \* history: the options the last start_quiz stored
    op              \* the last storage operation followed on its own: its input and outcome

vars == <<db, session_state, selections, ignored, started_options, op>>

----------------------------------------------------------------------------
(* Bounds of the model *)

\* the ingestion cycles never grow the table beyond MaxRows rows
MaxRows == 2

\* a response of the remote source holds at most MaxBatch raw questions
MaxBatch == 2

(* Program constants *)

\* the slider's min_value, max_value and the initial num_questions
SliderMin == 1
SliderMax == 10
DefaultNumQuestions == 5

----------------------------------------------------------------------------
(* Python values *)

None == <<>>
Some(v) == <<v>>

Min(a, b) == IF a <= b THEN a ELSE b

Range(s) == {s[i] : i \in DOMAIN s}

\* the separator of ', '.join(...) and of .split(", ")
Separator == <<",", " ">>

\* str.join: the texts of parts with Separator between neighbours
RECURSIVE join(_)
join(parts) ==
    IF Len(parts) = 0 THEN <<>>
    ELSE IF Len(parts) = 1 THEN parts[1]
    ELSE parts[1] \o Separator \o join(Tail(parts))

\* str.split(", ") from position i on, cur being the piece read so far:
\* non-overlapping occurrences of the separator, left to right; the empty
\* text splits into one empty piece
RECURSIVE split_from(_, _, _)
split_from(s, i, cur) ==
    IF i > Len(s) THEN <<cur>>
    ELSE IF i + 1 <= Len(s) /\ s[i] = Separator[1] /\ s[i + 1] = Separator[2]
         THEN <<cur>> \o split_from(s, i + 2, <<>>)
         ELSE split_from(s, i + 1, Append(cur, s[i]))

split(s) == split_from(s, 1, <<>>)

\* the orderings random.shuffle can leave a list in
shuffle(list) ==
    LET n == Len(list)
        bij == {p \in [1..n -> 1..n] : \A i, j \in 1..n : p[i] = p[j] => i = j}
    IN  {[i \in 1..n |-> list[p[i]]] : p \in bij}

----------------------------------------------------------------------------
(* Inputs: the raw questions the remote source may return *)

\* incorrect_answers is a JSON value that may be null: Some(list) or None.
\* Q2 has no difficulty, Q3 no correct_answer, and Q4's incorrect_answers
\* is null.
RawPool ==
    { [question |-> "Q1", correct_answer |-> <<"a">>,
       incorrect_answers |-> Some(<< <<"b">>, <<"c">> >>),
       difficulty |-> "easy", category |-> "c9", type |-> "multiple"],
      [question |-> "Q2", correct_answer |-> <<"x">>,
       incorrect_answers |-> Some(<< <<"y", ",", " ", "z">> >>),
       category |-> "c9", type |-> "multiple"],
      [question |-> "Q3",
       incorrect_answers |-> Some(<< <<"b">> >>),
       difficulty |-> "easy", category |-> "c9", type |-> "boolean"],
      [question |-> "Q4", correct_answer |-> <<"x">>,
       incorrect_answers |-> None,
       difficulty |-> "easy", category |-> "c9", type |-> "multiple"] }

\* the sequences over S of length lo..hi
SeqsOf(S, lo, hi) == UNION {[1..n -> S] : n \in lo..hi}

\* what requests.get and response.json() may yield
Responses ==
    {[status |-> "error", results |-> <<>>]}
        \cup {[status |-> "ok", results |-> r] : r \in SeqsOf(RawPool, 0, MaxBatch)}

----------------------------------------------------------------------------
(* Ingestion *)

\* fetch_trivia_questions: the results of the response, None on a failed
\* request and on an empty result
fetch_trivia_questions(response) ==
    IF response.status = "error" THEN None
    ELSE IF Len(response.results) = 0 THEN None
    ELSE Some(response.results)

\* dict.get of a key of a raw question
get(item, key) == IF key \in DOMAIN item THEN item[key] ELSE "NULL"

\* the record transform_trivia_data appends for one raw question, as the
\* row load_data_to_db inserts:
\* (question, correct_answer, incorrect_answers, difficulty, category, type)
transformed_row(item) ==
    << item.question, item.correct_answer, join(item.incorrect_answers[1]),
       get(item, "difficulty"), get(item, "category"), get(item, "type") >>

has_required_fields(item) ==
    /\ "question" \in DOMAIN item
    /\ "correct_answer" \in DOMAIN item
    /\ "incorrect_answers" \in DOMAIN item

\* ', '.join of the entry's incorrect_answers raises TypeError when the
\* value is null
join_raises(item) == item.incorrect_answers = None

\* the loop of transform_trivia_data over the entries left, transformed_data
\* holding the rows appended so far: an entry without the required fields is
\* passed over; an exception raised for an entry is caught outside the loop,
\* which reports it and returns None, dropping the rows appended before
RECURSIVE transform_items(_, _)
transform_items(raw, transformed_data) ==
    IF Len(raw) = 0 THEN Some(transformed_data)
    ELSE IF ~has_required_fields(raw[1]) THEN transform_items(Tail(raw), transformed_data)
    ELSE IF join_raises(raw[1]) THEN None
    ELSE transform_items(Tail(raw), Append(transformed_data, transformed_row(raw[1])))

\* transform_trivia_data: None for no data and for a batch in which an entry
\* raised, else the rows of the entries that have the required fields, in
\* order
transform_trivia_data(raw_data) ==
    IF raw_data = None THEN None
    ELSE IF Len(raw_data[1]) = 0 THEN None
    ELSE transform_items(raw_data[1], <<>>)

----------------------------------------------------------------------------
(* Storage *)

\* where a sqlite3.Error may strike in load_data_to_db: nowhere, at the
\* CREATE TABLE, or later (at an INSERT or at the commit)
LoadFailures == {"none", "create", "insert"}

\* load_data_to_db: nothing for no data; else create the table if absent
\* and insert every row, committed at the end.  A sqlite3.Error before the
\* commit leaves the inserts uncommitted: closing the connection rolls
\* them back, while the table created outside the transaction stays.
load_data_to_db(d, transformed_data, failure) ==
    IF transformed_data = None THEN d
    ELSE IF Len(transformed_data[1]) = 0 THEN d
    ELSE IF failure = "create" THEN d
    ELSE IF failure = "insert" THEN [d EXCEPT !.exists = TRUE]
    ELSE [exists |-> TRUE, rows |-> d.rows \o transformed_data[1]]

\* etl_pipeline: fetch, transform, load
etl_pipeline(d, response, failure) ==
    load_data_to_db(d, transform_trivia_data(fetch_trivia_questions(response)), failure)

\* a mutant of fetch_random_questions: the query without its LIMIT
fetch_random_questions_unlimited(d, num_questions, failure) ==
    IF failure \/ ~d.exists THEN {<<>>}
    ELSE LET distinct == Range(d.rows)
             n == Cardinality(distinct)
         IN  {q \in [1..n -> distinct] : \A i, j \in 1..n : q[i] = q[j] => i = j}

\* a mutant of fetch_random_questions: the query without DISTINCT
fetch_random_questions_all_rows(d, num_questions, failure) ==
    IF failure \/ ~d.exists THEN {<<>>}
    ELSE LET n == Min(num_questions, Len(d.rows))
             picks == {p \in [1..n -> DOMAIN d.rows] : \A i, j \in 1..n : p[i] = p[j] => i = j}
         IN  {[i \in 1..n |-> d.rows[p[i]]] : p \in picks}

\* fetch_random_questions: SELECT DISTINCT * ... ORDER BY RANDOM() LIMIT n:
\* the possible results.  A sqlite3.Error (among them: no table trivia)
\* yields the empty list.
fetch_random_questions(d, num_questions, failure) ==
    IF failure \/ ~d.exists THEN {<<>>}
    ELSE LET distinct == Range(d.rows)
             n == Min(num_questions, Cardinality(distinct))
         IN  {q \in [1..n -> distinct] : \A i, j \in 1..n : q[i] = q[j] => i = j}

----------------------------------------------------------------------------
(* Quiz session *)

\* the list start_quiz shuffles for one question: incorrect_answers + correct_answer
options_of(question) == split(question[3]) \o <<question[2]>>

\* dict item assignment
dict_set(dict, key, value) ==
    [k \in DOMAIN dict \cup {key} |-> IF k = key THEN value ELSE dict[k]]

\* the option dicts start_quiz's loop may have stored after the first n of
\* the drawn questions: options[i] is a shuffle of the list of question i
RECURSIVE shuffled_upto(_, _)
shuffled_upto(questions, n) ==
    IF n = 0 THEN {<<>>}
    ELSE LET lists == shuffle(options_of(questions[n]))
         IN  {dict_set(o, n - 1, list) : o \in shuffled_upto(questions, n - 1), list \in lists}

shuffled_options(questions) == shuffled_upto(questions, Len(questions))

\* a mutant of start_quiz: the options dict is not emptied first
start_quiz_keeps_options(s, questions, options) ==
    [s EXCEPT !.questions = questions,
              !.current_question = 0,
              !.score = 0,
              !.answers = <<>>,
              !.options = [k \in DOMAIN @ \cup DOMAIN options |->
                              IF k \in DOMAIN options THEN options[k] ELSE @[k]],
              !.quiz_started = TRUE]

\* a mutant of start_quiz: the answers dict is not emptied
start_quiz_keeps_answers(s, questions, options) ==
    [s EXCEPT !.questions = questions,
              !.current_question = 0,
              !.score = 0,
              !.options = options,
              !.quiz_started = TRUE]

\* start_quiz, given the sample drawn and the shuffles made
start_quiz(s, questions, options) ==
    [s EXCEPT !.questions = questions,
              !.current_question = 0,
              !.score = 0,
              !.answers = <<>>,
              !.options = options,
              !.quiz_started = TRUE]

\* a mutant of submit_answer: every selection scores
submit_answer_always_scores(s, answer) ==
    IF answer = None THEN s
    ELSE [s EXCEPT !.score = @ + 1,
                   !.answers = dict_set(@, s.current_question, answer[1]),
                   !.current_question = @ + 1]

\* a mutant of submit_answer: no guard against a missing selection
submit_answer_unguarded(s, answer) ==
    IF answer = None THEN [s EXCEPT !.current_question = @ + 1]
    ELSE LET correct_answer == s.questions[s.current_question + 1][2]
         IN  [s EXCEPT !.score = IF answer[1] = correct_answer THEN @ + 1 ELSE @,
                       !.answers = dict_set(@, s.current_question, answer[1]),
                       !.current_question = @ + 1]

\* a mutant of submit_answer: a wrong selection does not advance
submit_answer_stays_on_wrong(s, answer) ==
    IF answer = None THEN s
    ELSE LET correct_answer == s.questions[s.current_question + 1][2]
         IN  IF answer[1] = correct_answer
             THEN [s EXCEPT !.score = @ + 1,
                            !.answers = dict_set(@, s.current_question, answer[1]),
                            !.current_question = @ + 1]
             ELSE [s EXCEPT !.answers = dict_set(@, s.current_question, answer[1])]

\* a mutant of submit_answer: the answer is recorded after the index moved
submit_answer_records_late(s, answer) ==
    IF answer = None THEN s
    ELSE LET correct_answer == s.questions[s.current_question + 1][2]
         IN  [s EXCEPT !.score = IF answer[1] = correct_answer THEN @ + 1 ELSE @,
                       !.answers = dict_set(@, s.current_question + 1, answer[1]),
                       !.current_question = @ + 1]

\* a mutant of submit_answer: the index moves on by two
submit_answer_skips(s, answer) ==
    IF answer = None THEN s
    ELSE LET correct_answer == s.questions[s.current_question + 1][2]
         IN  [s EXCEPT !.score = IF answer[1] = correct_answer THEN @ + 1 ELSE @,
                       !.answers = dict_set(@, s.current_question, answer[1]),
                       !.current_question = @ + 2]

\* a mutant of submit_answer: a wrong selection costs a point
submit_answer_penalizes(s, answer) ==
    IF answer = None THEN s
    ELSE LET correct_answer == s.questions[s.current_question + 1][2]
         IN  [s EXCEPT !.score = IF answer[1] = correct_answer THEN @ + 1 ELSE @ - 1,
                       !.answers = dict_set(@, s.current_question, answer[1]),
                       !.current_question = @ + 1]

\* submit_answer, answer being the value of the radio's key, None if unset
submit_answer(s, answer) ==
    IF answer = None THEN s
    ELSE LET correct_answer == s.questions[s.current_question + 1][2]
         IN  [s EXCEPT !.score = IF answer[1] = correct_answer THEN @ + 1 ELSE @,
                       !.answers = dict_set(@, s.current_question, answer[1]),
                       !.current_question = @ + 1]

\* main's guard of the question view
in_progress(s) == s.quiz_started /\ s.current_question < Len(s.questions)

\* main's guard of the score view
finished(s) == s.quiz_started /\ s.current_question >= Len(s.questions)

\* what main shows of the quiz: the question text and the radio's options
\* while in progress; the two numbers of "Your Score: a/b" once finished
render(s) ==
    [question |-> IF in_progress(s)
                  THEN Some(s.questions[s.current_question + 1][1]) ELSE None,
     options  |-> IF in_progress(s)
                  THEN Some(s.options[s.current_question]) ELSE None,
     summary  |-> IF finished(s)
                  THEN Some(<<s.score, s.num_questions>>) ELSE None]

\* a mutant of rerun: the run shuffles the options of the question it shows
\* again (here: reverses them)
rerun_reshuffling(s, n) ==
    [s EXCEPT !.num_questions = n,
              !.options = IF in_progress(s)
                          THEN dict_set(@, s.current_question,
                                        [i \in 1..Len(@[s.current_question]) |->
                                            @[s.current_question][Len(@[s.current_question]) + 1 - i]])
                          ELSE @]

\* a script run of main with no button clicked and the slider at n: the
\* slider's value is stored, the rest of the session state is only read
rerun(s, n) == [s EXCEPT !.num_questions = n]

\* the values the slider can be set to that matter to a table of at most
\* MaxRows rows; the initial 5 stands for every larger one
SliderChoices == {n \in SliderMin..SliderMax : n <= MaxRows}

\* the selections a Submit click can carry: an option of the radio, or no
\* value under the radio's key
Selections(s) == {None} \cup {Some(o) : o \in Range(s.options[s.current_question])}

----------------------------------------------------------------------------
(* Storage operations with their connection and exceptions *)

\* where load_data_to_db may fail, for the rows it is given: at
\* sqlite3.connect, at the CREATE TABLE, at an INSERT after k rows were
\* inserted, or at the commit after all were
load_failure_points(rows) ==
    {<<"none", Len(rows)>>, <<"connect", 0>>, <<"create", 0>>, <<"commit", Len(rows)>>}
        \cup {<<"insert", k>> : k \in 0..(Len(rows) - 1)}

\* a mutant of rows_after_close: every INSERT is committed on its own
rows_after_close_autocommit(rows, inserted, committed) ==
    rows \o inserted

\* the rows of the table once the connection is gone: the rows inserted
\* since the last commit are kept only if they were committed
rows_after_close(rows, inserted, committed) ==
    IF committed THEN rows \o inserted ELSE rows

\* a mutant of load_data_to_db_outcome: no early return for no data
load_data_to_db_outcome_always_connects(d, transformed_data, at, k) ==
    LET rows == IF transformed_data = None THEN <<>> ELSE transformed_data[1]
    IN  IF at = "connect"
        THEN [db |-> d, opened |-> FALSE, open |-> FALSE, raised |-> "UnboundLocalError"]
        ELSE IF at = "create"
        THEN [db |-> d, opened |-> TRUE, open |-> FALSE, raised |-> "none"]
        ELSE [db |-> [exists |-> TRUE,
                      rows |-> rows_after_close(d.rows, SubSeq(rows, 1, k), at = "none")],
              opened |-> TRUE, open |-> FALSE, raised |-> "none"]

\* load_data_to_db with a failure at `at` after k rows were inserted: the
\* table afterwards, whether a connection was opened, whether it is still
\* open at the return, and the exception that escapes.  When
\* sqlite3.connect raises, conn was never bound, and the finally clause's
\* "if conn:" raises UnboundLocalError.
load_data_to_db_outcome(d, transformed_data, at, k) ==
    IF transformed_data = None \/ transformed_data = Some(<<>>)
    THEN [db |-> d, opened |-> FALSE, open |-> FALSE, raised |-> "none"]
    ELSE IF at = "connect"
    THEN [db |-> d, opened |-> FALSE, open |-> FALSE, raised |-> "UnboundLocalError"]
    ELSE IF at = "create"
    THEN [db |-> d, opened |-> TRUE, open |-> FALSE, raised |-> "none"]
    ELSE [db |-> [exists |-> TRUE,
                  rows |-> rows_after_close(d.rows, SubSeq(transformed_data[1], 1, k),
                                            at = "none")],
          opened |-> TRUE, open |-> FALSE, raised |-> "none"]

\* etl_pipeline with its response, its rows, the table before it and the
\* outcome of the load
etl_pipeline_outcome(d, response, at, k) ==
    LET raw_data == fetch_trivia_questions(response)
        transformed_data == transform_trivia_data(raw_data)
        loaded == load_data_to_db_outcome(d, transformed_data, at, k)
    IN  [name |-> "etl_pipeline", response |-> response, n |-> 0, at |-> at, k |-> k,
         transformed |-> transformed_data, result |-> <<>>,
         before |-> d, db |-> loaded.db, opened |-> loaded.opened, open |-> loaded.open,
         raised |-> loaded.raised]

\* where fetch_random_questions and visualize_data may fail
QueryFailures == {"none", "connect", "query"}

\* fetch_random_questions with a failure at `at`: the possible outcomes.
\* When the query raises (a sqlite3.Error, among them: no table trivia)
\* conn.close() is skipped; the connection then stays open until the
\* runtime reclaims the object, which may or may not have happened at the
\* return.
fetch_random_questions_outcomes(d, num_questions, at) ==
    LET fails == (at # "none") \/ ~d.exists
        leaks == fails /\ at # "connect"
    IN  {[name |-> "fetch_random_questions", response |-> <<>>, n |-> num_questions,
          at |-> at, k |-> 0, transformed |-> None, result |-> q,
          before |-> d, db |-> d, opened |-> (at # "connect"), open |-> still_open, raised |-> "none"] :
            q \in fetch_random_questions(d, num_questions, fails),
            still_open \in (IF leaks THEN BOOLEAN ELSE {FALSE})}

\* the bar heights of visualize_data: the rows per difficulty; value_counts
\* leaves out the rows whose difficulty is NULL
difficulty_counts(rows) ==
    [difficulty \in {rows[i][4] : i \in DOMAIN rows} \ {"NULL"} |->
        Cardinality({i \in DOMAIN rows : rows[i][4] = difficulty})]

\* visualize_data with a failure at `at`: every exception of the try block
\* is reported, and the finally clause closes the connection; when
\* sqlite3.connect raises, its "if conn:" raises UnboundLocalError.
visualize_data_outcome(d, at) ==
    LET fails == (at # "none") \/ ~d.exists
    IN  [name |-> "visualize_data", response |-> <<>>, n |-> 0, at |-> at, k |-> 0,
         transformed |-> None,
         result |-> IF fails THEN <<>> ELSE difficulty_counts(d.rows),
         before |-> d, db |-> d, opened |-> (at # "connect"), open |-> FALSE,
         raised |-> IF at = "connect" THEN "UnboundLocalError" ELSE "none"]

\* no storage operation followed yet
no_op ==
    [name |-> "none", response |-> <<>>, n |-> 0, at |-> "none", k |-> 0,
     transformed |-> None, result |-> <<>>,
     before |-> [exists |-> FALSE, rows |-> <<>>],
     db |-> [exists |-> FALSE, rows |-> <<>>], opened |-> FALSE, open |-> FALSE,
     raised |-> "none"]

----------------------------------------------------------------------------
(* The state machine *)

Init ==
    /\ db = [exists |-> FALSE, rows |-> <<>>]
    /\ session_state = [questions |-> <<>>, current_question |-> 0, score |-> 0,
                        num_questions |-> DefaultNumQuestions, answers |-> <<>>,
                        options |-> <<>>, quiz_started |-> FALSE]
    /\ selections = <<>>
    /\ ignored = FALSE
    /\ started_options = <<>>
    /\ op = no_op

\* one ingestion cycle
EtlPipeline(response, failure) ==
    LET after == etl_pipeline(db, response, failure)
    IN  /\ Len(after.rows) <= MaxRows
        /\ db' = after
    /\ UNCHANGED <<session_state, selections, ignored, started_options, op>>

\* a script run after the slider was moved: num_questions is set, the
\* view is rendered again
MoveSlider(n) ==
    /\ session_state' = rerun(session_state, n)
    /\ UNCHANGED <<db, selections, ignored, started_options, op>>

\* a script run after a click on "Start Quiz"
ClickStart(failure) ==
    /\ \E questions \in fetch_random_questions(db, session_state.num_questions, failure) :
         \E options \in shuffled_options(questions) :
            session_state' = start_quiz(session_state, questions, options)
    /\ selections' = <<>>
    /\ ignored' = FALSE
    /\ started_options' = session_state'.options
    /\ UNCHANGED <<db, op>>

\* a mutant of ClickSubmit: the Submit button is shown outside the question
\* view too, where no radio holds a selection
ClickSubmit_unguarded ==
    /\ \E answer \in (IF in_progress(session_state) THEN Selections(session_state) ELSE {None}) :
          /\ session_state' = submit_answer(session_state, answer)
          /\ selections' = IF answer = None THEN selections ELSE Append(selections, answer[1])
          /\ ignored' = (ignored \/ answer = None)
    /\ UNCHANGED <<db, started_options, op>>

\* a script run after a click on "Submit", a button of the question view
ClickSubmit ==
    /\ in_progress(session_state)
    /\ \E answer \in Selections(session_state) :
          /\ session_state' = submit_answer(session_state, answer)
          /\ selections' = IF answer = None THEN selections ELSE Append(selections, answer[1])
          /\ ignored' = (ignored \/ answer = None)
    /\ UNCHANGED <<db, started_options, op>>

Next ==
    \/ \E response \in Responses, failure \in LoadFailures : EtlPipeline(response, failure)
    \/ \E n \in SliderChoices : MoveSlider(n)
    \/ \E failure \in BOOLEAN : ClickStart(failure)
    \/ ClickSubmit

Spec == Init /\ [][Next]_vars

\* one ingestion cycle, followed with its connection and exceptions
StorageEtl(response) ==
    LET rows == transform_trivia_data(fetch_trivia_questions(response))
        points == load_failure_points(IF rows = None THEN <<>> ELSE rows[1])
    IN  \E point \in points :
           LET outcome == etl_pipeline_outcome(db, response, point[1], point[2])
           IN  /\ Len(outcome.db.rows) <= MaxRows
               /\ db' = outcome.db
               /\ op' = outcome
               /\ UNCHANGED <<session_state, selections, ignored, started_options>>

\* one call of fetch_random_questions
StorageSample(n, at) ==
    /\ \E outcome \in fetch_random_questions_outcomes(db, n, at) : op' = outcome
    /\ UNCHANGED <<db, session_state, selections, ignored, started_options>>

\* one call of visualize_data
StorageVisualize(at) ==
    /\ op' = visualize_data_outcome(db, at)
    /\ UNCHANGED <<db, session_state, selections, ignored, started_options>>

NextStorage ==
    \/ \E response \in Responses : StorageEtl(response)
    \/ \E n \in SliderMin..SliderMax, at \in QueryFailures : StorageSample(n, at)
    \/ \E at \in QueryFailures : StorageVisualize(at)

SpecStorage == Init /\ [][NextStorage]_vars

----------------------------------------------------------------------------
(* Properties *)

\* the session size N, and the correct answer of the question at index i
N == Len(session_state.questions)
correct_answer_of(s, i) == s.questions[i + 1][2]

\* C1: a submit_answer step with a selection moves current_question on by
\* exactly 1, records the selection under the old index, and raises score
\* by exactly 1 if the selection is the current question's correct_answer
\* and leaves it unchanged otherwise.
C1_SubmitScoresAndAdvances ==
    [][Len(selections') = Len(selections) + 1 =>
         LET s == session_state
             t == session_state'
             selected == selections'[Len(selections')]
         IN  /\ in_progress(s)
             /\ t.current_question = s.current_question + 1
             /\ t.score = s.score + (IF selected = correct_answer_of(s, s.current_question)
                                     THEN 1 ELSE 0)
             /\ s.current_question \in DOMAIN t.answers
             /\ t.answers[s.current_question] = selected
             /\ t.questions = s.questions]_vars

\* C1 witness: two selections were submitted, one correct and one not
C1_Witness ==
    /\ session_state.quiz_started
    /\ Len(selections) = 2
    /\ session_state.current_question = 2
    /\ session_state.score = 1

\* C2: in every state, submit_answer without a selection changes nothing of
\* the session: current_question, score, answers, questions and options.
C2_SubmitNoneIsNoOp ==
    LET s == session_state
        t == submit_answer(session_state, None)
    IN  /\ t.current_question = s.current_question
        /\ t.score = s.score
        /\ t.answers = s.answers
        /\ t.questions = s.questions
        /\ t.options = s.options

\* C2 witness: a Submit without a selection happened in a session that is
\* in progress, where a Submit with a selection would have moved it on
C2_Witness ==
    /\ ignored
    /\ in_progress(session_state)
    /\ session_state.current_question = 1
    /\ \E answer \in Selections(session_state) :
          submit_answer(session_state, answer) # session_state

\* C3: a session started with N >= 1 questions is finished exactly when N
\* selections were submitted since its start: in progress, with a question
\* shown, after fewer; finished, with none shown, after N; never more.
C3_FinishedAfterExactlyN ==
    (session_state.quiz_started /\ N >= 1) =>
        /\ Len(selections) <= N
        /\ Len(selections) < N =>
              /\ in_progress(session_state)
              /\ ~finished(session_state)
              /\ render(session_state).question # None
        /\ Len(selections) = N =>
              /\ finished(session_state)
              /\ session_state.current_question >= N
              /\ render(session_state).question = None

\* C3 witness: a session of two questions finished by two selections
C3_Witness ==
    /\ session_state.quiz_started
    /\ N = 2
    /\ Len(selections) = 2
    /\ finished(session_state)

\* C4: once the session is finished, the summary shown is (score, N), N
\* being the number of questions the session holds, and 0 <= score <= N.
C4_SummaryIsScoreOfN ==
    finished(session_state) =>
        /\ render(session_state).summary = Some(<<session_state.score, N>>)
        /\ 0 <= session_state.score
        /\ session_state.score <= N

\* C5: a session started on an empty sample is finished at once, shows no
\* question and no options, and its summary is (0, 0).
C5_EmptySampleFinishedZeroOfZero ==
    (session_state.quiz_started /\ N = 0) =>
        /\ finished(session_state)
        /\ selections = <<>>
        /\ render(session_state).question = None
        /\ render(session_state).options = None
        /\ render(session_state).summary = Some(<<0, 0>>)

\* C6: between one start and the next, options stays what the start stored:
\* no submit_answer and no other script run alters an entry, so a question
\* in progress is always shown with the list stored for it at the start.
C6_OptionsFrozenBetweenStarts ==
    /\ session_state.options = started_options
    /\ in_progress(session_state) =>
          render(session_state).options = Some(started_options[session_state.current_question])

\* C6 witness: a session in progress at its second question after a
\* selection was submitted and the slider was moved off its initial value
C6_Witness ==
    /\ in_progress(session_state)
    /\ Len(selections) = 1
    /\ session_state.current_question = 1
    /\ session_state.num_questions # DefaultNumQuestions
    /\ DOMAIN session_state.options = 0..1

\* the raw questions a row of the table may come from
sources_of(row) ==
    {item \in RawPool :
        /\ has_required_fields(item)
        /\ ~join_raises(item)
        /\ transformed_row(item) = row}

\* C7: in a started session, options[i] is a permutation of the distractors
\* of the source record of question i plus its correct answer, whatever the
\* distractors' texts.
C7_OptionsPermuteSourceAnswers ==
    session_state.quiz_started =>
        /\ DOMAIN session_state.options = 0..(N - 1)
        /\ \A i \in 0..(N - 1) :
              \A item \in sources_of(session_state.questions[i + 1]) :
                 session_state.options[i]
                    \in shuffle(item.incorrect_answers[1] \o <<item.correct_answer>>)

\* C8 as stated: once rows were inserted, a sample of n that meets no
\* storage error has min(n, total rows) records, each a row of the table.
C8_SampleSizeOfTotalRows ==
    (db.exists /\ Len(db.rows) > 0) =>
        \A n \in SliderMin..SliderMax :
           \A q \in fetch_random_questions(db, n, FALSE) :
              /\ Len(q) = Min(n, Len(db.rows))
              /\ Range(q) \subseteq Range(db.rows)

\* C8 amended: once rows were inserted, a sample of n that meets no storage
\* error has min(n, number of distinct rows) records, each a row of the
\* table; that is min(n, total rows) when no row is repeated.
C8_SampleSizeOfDistinctRows ==
    (db.exists /\ Len(db.rows) > 0) =>
        \A n \in SliderMin..SliderMax :
           \A q \in fetch_random_questions(db, n, FALSE) :
              /\ Len(q) = Min(n, Cardinality(Range(db.rows)))
              /\ Range(q) \subseteq Range(db.rows)
              /\ Cardinality(Range(db.rows)) = Len(db.rows) => Len(q) = Min(n, Len(db.rows))

\* C8 witness: a session started on a table that holds a row twice, with
\* fewer questions than the rows asked for and present
C8_Witness ==
    /\ db.exists
    /\ Cardinality(Range(db.rows)) < Len(db.rows)
    /\ session_state.quiz_started
    /\ session_state.questions \in fetch_random_questions(db, session_state.num_questions, FALSE)
    /\ N >= 1
    /\ N < Min(session_state.num_questions, Len(db.rows))

\* C9: a sample of n that meets no storage error has min(n, number of
\* distinct rows) records, pairwise distinct, each a row of the table; it
\* holds every distinct row when there are fewer than n.
C9_SampleDistinctBounded ==
    \A n \in SliderMin..SliderMax :
       \A q \in fetch_random_questions(db, n, FALSE) :
          LET distinct == Range(db.rows)
          IN  /\ Len(q) = Min(n, Cardinality(distinct))
              /\ \A i, j \in 1..Len(q) : q[i] = q[j] => i = j
              /\ Range(q) \subseteq distinct
              /\ Cardinality(distinct) < n => Range(q) = distinct

\* C9 witness: a session started with more questions asked for than the
\* two distinct rows of the table, and holding both
C9_Witness ==
    /\ db.exists
    /\ Cardinality(Range(db.rows)) = 2
    /\ session_state.num_questions > 2
    /\ session_state.quiz_started
    /\ session_state.questions \in fetch_random_questions(db, session_state.num_questions, FALSE)
    /\ Range(session_state.questions) = Range(db.rows)

\* C10: every key of answers is less than current_question.
C10_AnswerKeysBelowIndex ==
    \A k \in DOMAIN session_state.answers : k < session_state.current_question

\* C10 witness: two answers are recorded
C10_Witness ==
    /\ DOMAIN session_state.answers = {0, 1}
    /\ session_state.current_question = 2

\* the step is one of the script runs and operations other than a click on
\* "Start Quiz": a click on "Submit", a move of the slider, an ingestion cycle
non_start_step ==
    \/ \E n \in SliderChoices : MoveSlider(n)
    \/ ClickSubmit
    \/ /\ session_state' = session_state
       /\ \E response \in Responses, failure \in LoadFailures : EtlPipeline(response, failure)

\* C11: in every step that is not a start, current_question stays the same
\* or grows by exactly 1, and it grows only when submit_answer was given a
\* selection; so it decreases in start steps only.
C11_IndexStepsByOne ==
    [][\/ session_state'.current_question = session_state.current_question
       \/ /\ session_state'.current_question = session_state.current_question + 1
          /\ Len(selections') = Len(selections) + 1
       \/ ~non_start_step]_vars

\* C11 witness: the index has grown to 2 by two selections, with a Submit
\* without a selection and a move of the slider in the same session
C11_Witness ==
    /\ session_state.current_question = 2
    /\ Len(selections) = 2
    /\ ignored
    /\ session_state.num_questions # DefaultNumQuestions

\* C12: in every step that is not a start, score does not decrease (so only
\* a start sets it back to 0), and 0 <= score <= N in every state.
C12_ScoreMonotoneAndBounded ==
    /\ [](0 <= session_state.score /\ session_state.score <= N)
    /\ [][\/ session_state'.score >= session_state.score
          \/ ~non_start_step]_vars

\* C12 witness: a finished session of two questions, both answered correctly
C12_Witness ==
    /\ finished(session_state)
    /\ N = 2
    /\ session_state.score = 2

\* C13: in every state, idle, in progress or finished, start_quiz leaves a
\* session that holds the sample drawn, score 0, no answers, index 0 and
\* options with exactly the keys 0..N-1 of the new sample, holding the new
\* shuffles; num_questions alone is kept.
C13_StartReplacesSession ==
    \A failure \in BOOLEAN :
       \A questions \in fetch_random_questions(db, session_state.num_questions, failure) :
          \A options \in shuffled_options(questions) :
             LET t == start_quiz(session_state, questions, options)
             IN  /\ t.questions = questions
                 /\ t.score = 0
                 /\ DOMAIN t.answers = {}
                 /\ t.current_question = 0
                 /\ t.quiz_started
                 /\ DOMAIN t.options = 0..(Len(questions) - 1)
                 /\ t.options = options
                 /\ t.num_questions = session_state.num_questions

\* C13 witness: a session of two questions at its second question, with an
\* answer recorded and a point scored, where a start would draw one question
C13_Witness ==
    /\ in_progress(session_state)
    /\ N = 2
    /\ session_state.current_question = 1
    /\ session_state.score = 1
    /\ DOMAIN session_state.answers = {0}
    /\ \E questions \in fetch_random_questions(db, session_state.num_questions, FALSE) :
          Len(questions) = 1

\* C14: no storage operation lets an exception escape: load_data_to_db and
\* visualize_data return normally on every failure, among them a failure
\* of sqlite3.connect.  (Violated: a failing connect leaves conn unbound
\* and the finally clause raises UnboundLocalError.)
C14_NoExceptionEscapes ==
    op.raised = "none"

\* C15: no connection is open when a storage operation has returned,
\* whatever failed after the connection was opened.  (Violated: a failing
\* query in fetch_random_questions skips conn.close().)
C15_ConnectionReleased ==
    ~op.open

\* C16: after an etl_pipeline whose fetch failed or returned no results the
\* table is the table before it, and no connection was opened.
C16_FailedFetchWritesNothing ==
    (/\ op.name = "etl_pipeline"
     /\ (op.response.status = "error" \/ Len(op.response.results) = 0))
        => /\ db = op.before
           /\ ~op.opened
           /\ ~op.open

\* C16 witness: an etl_pipeline whose request failed, over a table that
\* holds rows, with a store that could not have been opened
C16_Witness ==
    /\ op.name = "etl_pipeline"
    /\ op.response.status = "error"
    /\ op.at = "connect"
    /\ Len(db.rows) >= 1

\* C17: after a load_data_to_db of a batch the rows of the table are the
\* rows before the call if a storage error occurred (at the connect, at the
\* CREATE TABLE, at an INSERT after any number of rows, or at the commit),
\* and else the rows before the call followed by every row of the batch.
\* (The CREATE TABLE IF NOT EXISTS is not undone: a table that was absent
\* may be present, without rows, after a failed call.)
C17_LoadAllOrNothing ==
    (/\ op.name = "etl_pipeline"
     /\ op.transformed # None)
        => /\ db.rows = IF op.at = "none" THEN op.before.rows \o op.transformed[1]
                                          ELSE op.before.rows
           /\ \A i \in DOMAIN op.before.rows : db.rows[i] = op.before.rows[i]

\* C17 witness: a batch of two rows whose second INSERT failed, over a
\* table that held a row
C17_Witness ==
    /\ op.name = "etl_pipeline"
    /\ op.transformed # None
    /\ Len(op.transformed[1]) = 2
    /\ op.at = "insert"
    /\ op.k = 1
    /\ Len(op.before.rows) = 1

\* the index of the j-th entry of raw that has the required fields
nth_valid(raw, j) ==
    CHOOSE i \in DOMAIN raw :
        /\ has_required_fields(raw[i])
        /\ Cardinality({v \in 1..i : has_required_fields(raw[v])}) = j

\* C18: for every raw batch transform_trivia_data yields one row per entry
\* that has question, correct_answer and incorrect_answers, in the order of
\* the input, its incorrect_answers being the entry's distractors joined by
\* ", "; the other entries are skipped, and the output is no longer than
\* the input.  (Violated: an entry that has the three keys but whose
\* incorrect_answers cannot be joined makes the whole batch None.)
C18_TransformKeepsValidEntries ==
    (/\ op.name = "etl_pipeline"
     /\ fetch_trivia_questions(op.response) # None)
        => LET raw == op.response.results
               out == op.transformed
           IN  /\ out # None
               /\ Len(out[1]) = Cardinality({i \in DOMAIN raw : has_required_fields(raw[i])})
               /\ Len(out[1]) <= Len(raw)
               /\ \A j \in DOMAIN out[1] :
                     LET item == raw[nth_valid(raw, j)]
                     IN  /\ out[1][j][1] = item.question
                         /\ out[1][j][2] = item.correct_answer
                         /\ out[1][j][3] = join(item.incorrect_answers[1])

\* C19: submit_answer runs only in a session that is started and has
\* current_question < N, so that questions[current_question] exists; and
\* from a finished session no step other than a start changes questions,
\* current_question, score, answers or options.
C19_SubmitOnlyInProgress ==
    /\ [][(\/ Len(selections') = Len(selections) + 1
           \/ (ignored' /\ ~ignored)
           \/ ClickSubmit) =>
             /\ session_state.quiz_started
             /\ session_state.current_question < Len(session_state.questions)
             /\ (session_state.current_question + 1) \in DOMAIN session_state.questions]_vars
    /\ [][(finished(session_state) /\ non_start_step) =>
             /\ session_state'.questions = session_state.questions
             /\ session_state'.current_question = session_state.current_question
             /\ session_state'.score = session_state.score
             /\ session_state'.answers = session_state.answers
             /\ session_state'.options = session_state.options
             /\ finished(session_state')]_vars

\* C19 witness: a session of two questions finished by two selections, the
\* slider moved afterwards to a value other than the number of questions
C19_Witness ==
    /\ finished(session_state)
    /\ N = 2
    /\ Len(selections) = 2
    /\ session_state.num_questions = 1

\* C20: in a started session the keys of answers are exactly
\* 0..current_question-1, score is the number of those indices whose answer
\* is the question's correct_answer, and 0 <= score <= current_question <= N.
C20_ScoreCountsCorrectAnswers ==
    session_state.quiz_started =>
        /\ DOMAIN session_state.answers = 0..(session_state.current_question - 1)
        /\ session_state.current_question <= N
        /\ session_state.score =
              Cardinality({i \in 0..(session_state.current_question - 1) :
                              session_state.answers[i] = correct_answer_of(session_state, i)})
        /\ 0 <= session_state.score
        /\ session_state.score <= session_state.current_question

\* C20 witness: two answers recorded in a session of two questions, one of
\* them correct
C20_Witness ==
    /\ session_state.quiz_started
    /\ N = 2
    /\ DOMAIN session_state.answers = {0, 1}
    /\ session_state.score = 1
    /\ session_state.answers[0] # correct_answer_of(session_state, 0)

=============================================================================
